---- MODULE Spec2Model ----
(***************************************************************************)
(* Model of the wikipedia-extraction extractor                             *)
(* (internal/extractor/extractor.go).                                      *)
(*                                                                         *)
(* Strings are sequences of tokens over a small alphabet: " " is a         *)
(* whitespace character, every other token is a run of non-whitespace      *)
(* text ("Robert", "[1]", "http", "cite_note", ...).  Concatenation is     *)
(* \o, strings.TrimSpace / HasPrefix / Contains / TrimPrefix / Join are    *)
(* computed on these sequences the way the Go functions compute them on    *)
(* bytes.                                                                  *)
(*                                                                         *)
(* A document is what goquery's selectors see of the parsed page: the      *)
(* first-heading elements, the title elements (in the head and inside the  *)
(* body), the reference sections with their list items and links, and the  *)
(* table regions with their rows, cells and the links inside the cells.    *)
(***************************************************************************)
EXTENDS Integers, Sequences, FiniteSets, TLC

VARIABLES
    web,       \* URL -> page served at that URL (a document, or unavailable)
    handlers,  \* per Extractor: the OnHTML callbacks registered on its collector
    visited,   \* per Extractor: the URLs its collector has already visited
    calls,     \* the ExtractFromURL invocations made so far, with their results
    arg,       \* input of the function under check (function-level specifications)
    ret        \* its result

vars == <<web, handlers, visited, calls, arg, ret>>

----------------------------------------------------------------------------
(* Strings *)

Space == " "

EmptyStr == <<>>

RECURSIVE TrimLeft(_)
TrimLeft(s) ==
    IF s # <<>> /\ Head(s) = Space THEN TrimLeft(Tail(s)) ELSE s

RECURSIVE TrimRight(_)
TrimRight(s) ==
    IF s # <<>> /\ s[Len(s)] = Space THEN TrimRight(SubSeq(s, 1, Len(s) - 1)) ELSE s

\* The text taken as it is, without trimming (not what the code does)
NoTrim(s) == s

\* strings.TrimSpace
TrimSpace(s) == TrimRight(TrimLeft(s))

\* strings.HasPrefix, and the attribute selector [href^='...']
HasPrefix(s, p) == Len(s) >= Len(p) /\ SubSeq(s, 1, Len(p)) = p

\* strings.Contains, and the attribute selector [href*='...']
Contains(s, sub) ==
    \E i \in 1..(Len(s) - Len(sub) + 1) : SubSeq(s, i, i + Len(sub) - 1) = sub

\* strings.TrimPrefix
TrimPrefix(s, p) == IF HasPrefix(s, p) THEN SubSeq(s, Len(p) + 1, Len(s)) ELSE s

\* strings.Join
RECURSIVE Join(_, _)
Join(list, sep) ==
    IF list = <<>> THEN <<>>
    ELSE IF Len(list) = 1 THEN list[1]
    ELSE list[1] \o sep \o Join(Tail(list), sep)

\* Concatenation of a sequence of strings (goquery's Text() of a selection)
RECURSIVE ConcatAll(_)
ConcatAll(list) == IF list = <<>> THEN <<>> ELSE Head(list) \o ConcatAll(Tail(list))

Range(f) == {f[i] : i \in DOMAIN f}

SeqsUpTo(S, n) == UNION {[1..k -> S] : k \in 0..n}

----------------------------------------------------------------------------
(* Maps (Go map[string]string) *)

EmptyMap == <<>>

MapSet(m, k, v) == [x \in (DOMAIN m) \cup {k} |-> IF x = k THEN v ELSE m[x]]

----------------------------------------------------------------------------
(* Reference sections *)

\* Literals of the selectors and of the string operations
Http == <<"http">>
CiteNoteSel == <<"#", "cite_note">>
CiteNoteHash == <<"#", "cite_note", "-">>
CiteNoteKey == <<"cite_note", "-">>
Sentinel == <<"no", " ", "citation">>
JoinSep == <<";", " ">>

\* Link targets and element identifiers used as inputs
LinkA == <<"http", "://a.org">>
LinkB == <<"http", "s://example.com/bio">>
LinkBack == <<"#", "cite_ref", "-", "1">>
Id1 == <<"cite_note", "-", "1">>
Id2 == <<"cite_note", "-", "2">>

\* A list item of a reference section: its id attribute (if any) and the
\* href attributes of the links inside it, in document order.
Li(hasId, id, links) == [hasId |-> hasId, id |-> id, links |-> links]

\* A reference section is one of:
\*   "reflist"    an element matched by "#References, #references, .reflist,
\*                .references" that is no ol.references, holding list items;
\*   "ol"         an ol.references (matched by both selectors);
\*   "reflist>ol" an ol.references nested in a .reflist wrapper: the first
\*                selector matches the wrapper and the list, so the first
\*                pass walks the list items twice.
SectionKinds == {"reflist", "ol", "reflist>ol"}

Section(kind, items) == [kind |-> kind, items |-> items]

\* li elements in the order the first pass (#References, ... ) visits them
RECURSIVE Pass1Items(_)
Pass1Items(sections) ==
    IF sections = <<>> THEN <<>>
    ELSE LET s == Head(sections)
         IN  (IF s.kind = "reflist>ol" THEN s.items \o s.items ELSE s.items)
             \o Pass1Items(Tail(sections))

\* li elements in the order the second pass (ol.references li) visits them
RECURSIVE Pass2Items(_)
Pass2Items(sections) ==
    IF sections = <<>> THEN <<>>
    ELSE LET s == Head(sections)
         IN  (IF s.kind \in {"ol", "reflist>ol"} THEN s.items ELSE <<>>)
             \o Pass2Items(Tail(sections))

IsExternal(href) == HasPrefix(href, Http)

\* li.Find("a[href^='http']")
ExternalLinks(li) == SelectSeq(li.links, IsExternal)

\* references[id] = href
StoreReference(references, id, href) == MapSet(references, id, href)

\* li.Find("a[href^='http']").Each(... references[id] = href ...)
RECURSIVE StoreLinks(_, _, _)
StoreLinks(references, id, links) ==
    IF links = <<>> THEN references
    ELSE StoreLinks(StoreReference(references, id, Head(links)), id, Tail(links))

\* One pass over list items: items without an id attribute are skipped
RECURSIVE ScanItems(_, _)
ScanItems(references, items) ==
    IF items = <<>> THEN references
    ELSE LET li == Head(items)
         IN  ScanItems(IF li.hasId
                         THEN StoreLinks(references, li.id, ExternalLinks(li))
                         ELSE references,
                       Tail(items))

\* extractReferences: both passes write into the same map
extractReferences(sections) ==
    ScanItems(ScanItems(EmptyMap, Pass1Items(sections)), Pass2Items(sections))

----------------------------------------------------------------------------
(* Function-level specification: extractReferences *)

NotDone == [done |-> FALSE, val |-> <<>>]

Done(v) == [done |-> TRUE, val |-> v]

MaxSections == 2

RefItems ==
    { Li(TRUE, Id1, <<LinkBack, LinkA>>),
      Li(TRUE, Id1, <<LinkA, LinkB>>),
      Li(TRUE, Id1, <<LinkB>>),
      Li(TRUE, Id2, <<LinkBack>>),
      Li(FALSE, EmptyStr, <<LinkA>>) }

ItemLists ==
    {<<>>} \cup {<<x>> : x \in RefItems} \cup {<<x, y>> : x \in RefItems, y \in RefItems}

Sections == {Section(k, items) : k \in SectionKinds, items \in ItemLists}

InitRefs ==
    /\ web = <<>> /\ handlers = <<>> /\ visited = <<>> /\ calls = <<>>
    /\ arg \in {[fn |-> "extractReferences", sections |-> s] :
                    s \in SeqsUpTo(Sections, MaxSections)}
    /\ ret = NotDone

ApplyExtractReferences ==
    /\ arg.fn = "extractReferences"
    /\ ~ret.done
    /\ ret' = Done(extractReferences(arg.sections))
    /\ UNCHANGED <<web, handlers, visited, calls, arg>>

NextRefs == ApplyExtractReferences

SpecRefs == InitRefs /\ [][NextRefs]_vars

\* The http links of the identified list items, as (id, href) pairs in the
\* order the two passes meet them
RECURSIVE LinkOccurrences(_)
LinkOccurrences(items) ==
    IF items = <<>> THEN <<>>
    ELSE LET li == Head(items)
             ext == ExternalLinks(li)
         IN  (IF li.hasId THEN [i \in 1..Len(ext) |-> <<li.id, ext[i]>>] ELSE <<>>)
             \o LinkOccurrences(Tail(items))

Traversal(sections) == LinkOccurrences(Pass1Items(sections) \o Pass2Items(sections))

FirstLinkFor(occ, id) ==
    LET first == CHOOSE i \in DOMAIN occ :
                    occ[i][1] = id /\ \A j \in 1..(i - 1) : occ[j][1] # id
    IN  occ[first][2]

\* C1: every identifier of the index maps to the first external link met
\* for it in traversal order; later links never overwrite it.
C1_FirstWriterWins ==
    (arg.fn = "extractReferences" /\ ret.done) =>
        LET occ == Traversal(arg.sections)
        IN  /\ DOMAIN ret.val = {occ[i][1] : i \in DOMAIN occ}
            /\ \A id \in DOMAIN ret.val : ret.val[id] = FirstLinkFor(occ, id)

----------------------------------------------------------------------------
(* Cells and citation markers *)

\* A child node of a table cell, in document order: a text node, or a link
\* (a element) with its href attribute (if any), its text, and whether it
\* sits inside a sup element.
TextNode(text) ==
    [kind |-> "text", text |-> text, hasHref |-> FALSE, href |-> EmptyStr, sup |-> FALSE]

LinkNode(hasHref, href, sup, text) ==
    [kind |-> "a", text |-> text, hasHref |-> hasHref, href |-> href, sup |-> sup]

\* A th or td element
Cell(tag, nodes) == [tag |-> tag, nodes |-> nodes]

\* Selection.Text(): the text of every selected element, concatenated
CellText(cell) == ConcatAll([i \in DOMAIN cell.nodes |-> cell.nodes[i].text])

SelectionText(cells) == ConcatAll([i \in DOMAIN cells |-> CellText(cells[i])])

IsLink(node) == node.kind = "a"

\* The a elements below the cells of a selection, in document order
Links(cells) == SelectSeq(ConcatAll([i \in DOMAIN cells |-> cells[i].nodes]), IsLink)

\* cell.Find("a[href*='#cite_note']")
MatchesCiteNoteSelector(a) == a.hasHref /\ Contains(a.href, CiteNoteSel)

\* cell.Find("sup a")
MatchesSupSelector(a) == a.sup

\* The accumulator of extractCitations: the citations slice and the
\* citationMap set of targets already collected
EmptyAcc == [citations |-> <<>>, citationMap |-> {}]

\* Lines 148-151 without the membership test (not what the code does)
AddCitationNoDedup(acc, actualCitation) ==
    [citations |-> Append(acc.citations, actualCitation),
     citationMap |-> acc.citationMap \cup {actualCitation}]

\* if !citationMap[actualCitation] { citationMap[...] = true; append }
AddCitation(acc, actualCitation) ==
    IF actualCitation \in acc.citationMap THEN acc
    ELSE [citations |-> Append(acc.citations, actualCitation),
          citationMap |-> acc.citationMap \cup {actualCitation}]

\* The body of both Each callbacks (lines 141-154 and 159-172)
VisitLink(acc, a, references) ==
    IF a.hasHref /\ Contains(a.href, CiteNoteHash)
    THEN LET citationID == TrimPrefix(a.href, CiteNoteHash)
             referenceKey == CiteNoteKey \o citationID
         IN  IF referenceKey \in DOMAIN references
             THEN AddCitation(acc, references[referenceKey])
             ELSE acc
    ELSE acc

RECURSIVE VisitLinks(_, _, _)
VisitLinks(acc, links, references) ==
    IF links = <<>> THEN acc
    ELSE VisitLinks(VisitLink(acc, Head(links), references), Tail(links), references)

\* Lines 176-180 without the sentinel (not what the code does)
CitationResultNoSentinel(citations) == Join(citations, JoinSep)

\* Lines 176-180
CitationResult(citations) ==
    IF Len(citations) = 0 THEN Sentinel ELSE Join(citations, JoinSep)

\* The superscript scan run before the cite-note scan (not what the code
\* does)
extractCitationsSupFirst(cells, references) ==
    LET all == Links(cells)
        first == VisitLinks(EmptyAcc, SelectSeq(all, MatchesSupSelector), references)
        second == VisitLinks(first, SelectSeq(all, MatchesCiteNoteSelector), references)
    IN  CitationResult(second.citations)

\* extractCitations: the cite-note scan, then the superscript scan, share
\* one accumulator
extractCitations(cells, references) ==
    LET all == Links(cells)
        first == VisitLinks(EmptyAcc, SelectSeq(all, MatchesCiteNoteSelector), references)
        second == VisitLinks(first, SelectSeq(all, MatchesSupSelector), references)
    IN  CitationResult(second.citations)

----------------------------------------------------------------------------
(* Function-level specification: extractCitations *)

MaxNodes == 3

TextRobertX == <<"Robert", " ", "X">>
TextMark1 == <<"[1]">>
TextMark2 == <<"[2]">>

CellNodes ==
    { TextNode(TextRobertX),
      LinkNode(TRUE, <<"#">> \o Id1, TRUE, TextMark1),
      LinkNode(TRUE, <<"#">> \o Id1, FALSE, TextMark1),
      LinkNode(TRUE, <<"#">> \o Id2, TRUE, TextMark2),
      LinkNode(TRUE, <<"/wiki/P">> \o <<"#">> \o Id1, TRUE, TextMark1),
      LinkNode(TRUE, <<"#", "cite_note">>, FALSE, TextMark1),
      LinkNode(FALSE, EmptyStr, TRUE, TextMark2) }

RefIndexes ==
    { EmptyMap,
      Id1 :> LinkA,
      Id2 :> LinkB,
      Id1 :> LinkA @@ Id2 :> LinkA,
      Id1 :> LinkA @@ Id2 :> LinkB }

InitCite ==
    /\ web = <<>> /\ handlers = <<>> /\ visited = <<>> /\ calls = <<>>
    /\ arg \in {[fn |-> "extractCitations", cell |-> Cell("td", n), references |-> r] :
                    n \in SeqsUpTo(CellNodes, MaxNodes), r \in RefIndexes}
    /\ ret = NotDone

ApplyExtractCitations ==
    /\ arg.fn = "extractCitations"
    /\ ~ret.done
    /\ ret' = Done(extractCitations(<<arg.cell>>, arg.references))
    /\ UNCHANGED <<web, handlers, visited, calls, arg>>

NextCite == ApplyExtractCitations

SpecCite == InitCite /\ [][NextCite]_vars

\* Number of places at which sub occurs in s
Occurrences(s, sub) ==
    Cardinality({i \in 1..(Len(s) - Len(sub) + 1) : SubSeq(s, i, i + Len(sub) - 1) = sub})

\* A citation marker: a link to a same-page anchor "#cite_note-..."; the
\* note it points at is the element whose id is the fragment
IsMarker(node) == node.kind = "a" /\ node.hasHref /\ HasPrefix(node.href, CiteNoteHash)

MarkerNote(node) == Tail(node.href)

Resolves(node, references) == IsMarker(node) /\ MarkerNote(node) \in DOMAIN references

SomeMarkerResolves(cell, references) ==
    \E i \in DOMAIN cell.nodes : Resolves(cell.nodes[i], references)

CitesDone == arg.fn = "extractCitations" /\ ret.done

\* C2: the citation string of a cell never contains the same resolved
\* target twice.
C2_NoDuplicateTarget ==
    CitesDone =>
        \A t \in Range(arg.references) : Occurrences(ret.val, t) <= 1

\* A superscript cite-note link, which both scans match, resolves, and a
\* link to a different note resolves to the same target; the target is
\* cited once.
C2_Witness ==
    /\ CitesDone
    /\ \E i, j \in DOMAIN arg.cell.nodes :
          /\ Resolves(arg.cell.nodes[i], arg.references)
          /\ Resolves(arg.cell.nodes[j], arg.references)
          /\ MatchesCiteNoteSelector(arg.cell.nodes[i])
          /\ MatchesSupSelector(arg.cell.nodes[i])
          /\ MarkerNote(arg.cell.nodes[i]) # MarkerNote(arg.cell.nodes[j])
          /\ arg.references[MarkerNote(arg.cell.nodes[i])]
                = arg.references[MarkerNote(arg.cell.nodes[j])]
    /\ ret.val = LinkA

----------------------------------------------------------------------------
(* Rows, info panels and tables *)

\* A tr element: its class attribute (at most one class in this model) and
\* its th / td cells in document order
Row(class, cells) == [class |-> class, cells |-> cells]

Quad(subject, relationship, value, citation) ==
    [subject |-> subject, relationship |-> relationship,
     value |-> value, citation |-> citation]

IsTh(cell) == cell.tag = "th"
IsTd(cell) == cell.tag = "td"

\* Only the infobox-header class tested (not what the code does)
IsHeaderRowHeaderOnly(row) == row.class = "infobox-header"

\* s.HasClass("infobox-header") || s.HasClass("infobox-subheader")
IsHeaderRow(row) == row.class \in {"infobox-header", "infobox-subheader"}

\* The callback of parseInfobox for one row: the quads it appends
InfoboxRow(row, subject, references) ==
    IF IsHeaderRow(row) THEN <<>>
    ELSE LET label == TrimSpace(SelectionText(SelectSeq(row.cells, IsTh)))
             valueCell == SelectSeq(row.cells, IsTd)
             value == TrimSpace(SelectionText(valueCell))
         IN  IF label # EmptyStr /\ value # EmptyStr
             THEN <<Quad(subject, label, value, extractCitations(valueCell, references))>>
             ELSE <<>>

RECURSIVE parseInfobox(_, _, _)
parseInfobox(rows, subject, references) ==
    IF rows = <<>> THEN <<>>
    ELSE InfoboxRow(Head(rows), subject, references)
         \o parseInfobox(Tail(rows), subject, references)

\* cells.Eq(1) replaced by the last cell of the row (not what the code does)
TableValueCellLast(cells) == cells[Len(cells)]

\* cells.Eq(1)
TableValueCell(cells) == cells[2]

\* The callback of parseTable for one row: the quads it appends
TableRow(row, subject, references) ==
    LET cells == row.cells   \* s.Find("td, th")
    IN  IF Len(cells) >= 2
        THEN LET label == TrimSpace(CellText(cells[1]))
                 valueCell == TableValueCell(cells)
                 value == TrimSpace(CellText(valueCell))
             IN  IF label # EmptyStr /\ value # EmptyStr
                 THEN <<Quad(subject, label, value,
                             extractCitations(<<valueCell>>, references))>>
                 ELSE <<>>
        ELSE <<>>

RECURSIVE parseTable(_, _, _)
parseTable(rows, subject, references) ==
    IF rows = <<>> THEN <<>>
    ELSE TableRow(Head(rows), subject, references)
         \o parseTable(Tail(rows), subject, references)

----------------------------------------------------------------------------
(* Function-level specification: parseInfobox and parseTable *)

MaxRows == 2

TextDesignedBy == <<"Designed", " ", "by">>
TextA == <<"A">>
TextB == <<"B">>
TextC == <<"C">>
TextPaddedA == <<" ", "A", " ">>
TextPaddedB == <<" ", "B", " ", " ">>
TextBlank == <<" ", " ">>
SubjectExample == <<"Example", " ", "Language">>

Marker1 == LinkNode(TRUE, <<"#">> \o Id1, TRUE, TextMark1)
Marker2 == LinkNode(TRUE, <<"#">> \o Id2, TRUE, TextMark2)

ScenarioRow ==
    Row("", <<Cell("th", <<TextNode(TextDesignedBy)>>),
              Cell("td", <<TextNode(TextRobertX), Marker1>>)>>)

Rows ==
    { ScenarioRow,
      Row("infobox-header", <<Cell("th", <<TextNode(TextA)>>), Cell("td", <<TextNode(TextB)>>)>>),
      Row("infobox-subheader", <<Cell("th", <<TextNode(TextA)>>), Cell("td", <<TextNode(TextB)>>)>>),
      Row("", <<Cell("th", <<TextNode(TextBlank)>>), Cell("td", <<TextNode(TextB)>>)>>),
      Row("", <<Cell("th", <<TextNode(TextA)>>), Cell("td", <<TextNode(TextBlank)>>)>>),
      Row("", <<Cell("th", <<TextNode(TextA)>>), Cell("td", <<>>)>>),
      Row("", <<Cell("th", <<TextNode(TextPaddedA)>>), Cell("td", <<TextNode(TextPaddedB), Marker2>>)>>),
      Row("", <<Cell("td", <<TextNode(TextA)>>), Cell("td", <<TextNode(TextB)>>)>>),
      Row("", <<Cell("td", <<TextNode(TextA)>>), Cell("td", <<TextNode(TextB)>>),
                Cell("td", <<TextNode(TextC), Marker1>>)>>),
      Row("", <<Cell("th", <<TextNode(TextA)>>), Cell("td", <<TextNode(TextB), Marker2>>),
                Cell("td", <<TextNode(TextC), Marker1>>)>>),
      Row("", <<Cell("td", <<TextNode(TextB)>>), Cell("th", <<TextNode(TextA)>>)>>),
      Row("", <<Cell("th", <<TextNode(TextA)>>)>>) }

RowIndexes == {EmptyMap, Id1 :> LinkB, Id1 :> LinkB @@ Id2 :> LinkA}

InitRows ==
    /\ web = <<>> /\ handlers = <<>> /\ visited = <<>> /\ calls = <<>>
    /\ arg \in {[fn |-> f, rows |-> r, subject |-> SubjectExample, references |-> x] :
                    f \in {"parseInfobox", "parseTable"},
                    r \in SeqsUpTo(Rows, MaxRows),
                    x \in RowIndexes}
    /\ ret = NotDone

ApplyParseInfobox ==
    /\ arg.fn = "parseInfobox"
    /\ ~ret.done
    /\ ret' = Done(parseInfobox(arg.rows, arg.subject, arg.references))
    /\ UNCHANGED <<web, handlers, visited, calls, arg>>

ApplyParseTable ==
    /\ arg.fn = "parseTable"
    /\ ~ret.done
    /\ ret' = Done(parseTable(arg.rows, arg.subject, arg.references))
    /\ UNCHANGED <<web, handlers, visited, calls, arg>>

NextRows == ApplyParseInfobox \/ ApplyParseTable

SpecRows == InitRows /\ [][NextRows]_vars

\* A string of whitespace only (or empty)
Blank(s) == \A i \in DOMAIN s : s[i] = Space

\* A string without leading or trailing whitespace
Trimmed(s) == s = EmptyStr \/ (s[1] # Space /\ s[Len(s)] # Space)

\* t is s without its leading and trailing whitespace
IsTrimOf(t, s) ==
    /\ Trimmed(t)
    /\ \E i \in 1..(Len(s) + 1) :
          /\ i + Len(t) - 1 <= Len(s)
          /\ t = SubSeq(s, i, i + Len(t) - 1)
          /\ \A k \in 1..(i - 1) : s[k] = Space
          /\ \A k \in (i + Len(t))..Len(s) : s[k] = Space

\* The label and value text of a row, as each variant reads them
LabelText(fn, row) ==
    IF fn = "parseInfobox"
    THEN ConcatAll([i \in DOMAIN row.cells |->
                       IF row.cells[i].tag = "th" THEN CellText(row.cells[i]) ELSE EmptyStr])
    ELSE IF Len(row.cells) >= 1 THEN CellText(row.cells[1]) ELSE EmptyStr

ValueText(fn, row) ==
    IF fn = "parseInfobox"
    THEN ConcatAll([i \in DOMAIN row.cells |->
                       IF row.cells[i].tag = "td" THEN CellText(row.cells[i]) ELSE EmptyStr])
    ELSE IF Len(row.cells) >= 2 THEN CellText(row.cells[2]) ELSE EmptyStr

RowsDone == arg.fn \in {"parseInfobox", "parseTable"} /\ ret.done

\* C5: every assertion of parseInfobox and parseTable has a non-empty
\* (non-blank) relationship and value, and rows whose label or value is
\* empty or whitespace-only produce nothing.
C5_NonEmptyFields ==
    RowsDone =>
        /\ \A i \in DOMAIN ret.val :
              /\ ret.val[i].relationship # EmptyStr /\ ~Blank(ret.val[i].relationship)
              /\ ret.val[i].value # EmptyStr /\ ~Blank(ret.val[i].value)
        /\ Len(ret.val) <= Cardinality({i \in DOMAIN arg.rows :
                                           /\ ~Blank(LabelText(arg.fn, arg.rows[i]))
                                           /\ ~Blank(ValueText(arg.fn, arg.rows[i]))})

\* A row with a whitespace-only label and a row with a whitespace-only
\* value were parsed, and nothing was emitted.
C5_Witness ==
    /\ RowsDone
    /\ \E i, j \in DOMAIN arg.rows :
          /\ LabelText(arg.fn, arg.rows[i]) # EmptyStr
          /\ Blank(LabelText(arg.fn, arg.rows[i]))
          /\ ~Blank(ValueText(arg.fn, arg.rows[i]))
          /\ ValueText(arg.fn, arg.rows[j]) # EmptyStr
          /\ Blank(ValueText(arg.fn, arg.rows[j]))
          /\ ~Blank(LabelText(arg.fn, arg.rows[j]))
    /\ ret.val = <<>>

\* The rows of a generic table that have two cells with non-blank text
TableDataRows(rows) ==
    SelectSeq(rows, LAMBDA r : /\ Len(r.cells) >= 2
                               /\ ~Blank(CellText(r.cells[1]))
                               /\ ~Blank(CellText(r.cells[2])))

\* C8: parseTable emits one assertion per row with at least two cells
\* (and non-blank label and value): relationship from the first cell, value
\* and citations from the second; further cells change nothing.
C8_TableFirstTwoCells ==
    (arg.fn = "parseTable" /\ ret.done) =>
        LET data == TableDataRows(arg.rows)
        IN  /\ Len(ret.val) = Len(data)
            /\ \A i \in DOMAIN ret.val :
                  /\ IsTrimOf(ret.val[i].relationship, CellText(data[i].cells[1]))
                  /\ IsTrimOf(ret.val[i].value, CellText(data[i].cells[2]))
                  /\ ret.val[i].citation
                        = extractCitations(<<data[i].cells[2]>>, arg.references)
                  /\ ret.val[i].subject = arg.subject

\* A three-cell row A, B, C whose third cell carries a resolving marker was
\* parsed next to a one-cell row: one assertion, A / B / "no citation".
C8_Witness ==
    /\ arg.fn = "parseTable" /\ ret.done
    /\ \E i \in DOMAIN arg.rows :
          /\ Len(arg.rows[i].cells) = 3
          /\ SomeMarkerResolves(arg.rows[i].cells[3], arg.references)
    /\ \E i \in DOMAIN arg.rows : Len(arg.rows[i].cells) = 1
    /\ ret.val = <<Quad(arg.subject, TextA, TextB, Sentinel)>>

----------------------------------------------------------------------------
(* Documents and pages *)

\* A table-like element of the body: whether the selector ".infobox" and
\* the selector "table.wikitable" match it, and its tr elements
Region(infobox, wikitable, rows) ==
    [infobox |-> infobox, wikitable |-> wikitable, rows |-> rows]

\* A parsed page.  headings: the text of each h1#firstHeading element;
\* headTitles: the text of each title element of the head; bodyTitles: the
\* text of each title element inside the body; sections and regions: the
\* reference sections and table regions of the body, in document order.
Document(headings, headTitles, bodyTitles, sections, regions) ==
    [headings |-> headings, headTitles |-> headTitles, bodyTitles |-> bodyTitles,
     sections |-> sections, regions |-> regions]

EmptyDocument == Document(<<>>, <<>>, <<>>, <<>>, <<>>)

\* What a URL serves: a document, or nothing (the fetch fails)
Page(doc) == [ok |-> TRUE, doc |-> doc]
Unavailable == [ok |-> FALSE, doc |-> EmptyDocument]

IsInfobox(region) == region.infobox
IsWikitable(region) == region.wikitable

\* Lines 44-47.  The callback is registered on "body", so doc is the body
\* element and Find searches the body's descendants: the title elements of
\* the head are not among them.
PageTitle(doc) ==
    LET title == ConcatAll(doc.headings)           \* doc.Find("h1#firstHeading").Text()
    IN  IF title = EmptyStr THEN ConcatAll(doc.bodyTitles)   \* doc.Find("title").Text()
        ELSE title

\* doc.Find(sel).Each(... quads = append(quads, parse(s, title, references)...) ...)
RECURSIVE ParseRegions(_, _, _, _)
ParseRegions(regions, infobox, title, references) ==
    IF regions = <<>> THEN <<>>
    ELSE (IF infobox THEN parseInfobox(Head(regions).rows, title, references)
                     ELSE parseTable(Head(regions).rows, title, references))
         \o ParseRegions(Tail(regions), infobox, title, references)

\* One walk over the regions in document order, each parsed as it is met
\* (not what the code does)
RECURSIVE ParseInDocumentOrder(_, _, _)
ParseInDocumentOrder(regions, title, references) ==
    IF regions = <<>> THEN <<>>
    ELSE LET r == Head(regions)
         IN  (IF r.infobox THEN parseInfobox(r.rows, title, references) ELSE <<>>)
             \o (IF r.wikitable THEN parseTable(r.rows, title, references) ELSE <<>>)
             \o ParseInDocumentOrder(Tail(regions), title, references)

OnHTMLBodyDocumentOrder(call, doc) ==
    LET title == PageTitle(doc)
        references == extractReferences(doc.sections)
    IN  [call EXCEPT !.references = references,
                     !.quads = @ \o ParseInDocumentOrder(doc.regions, title, references)]

\* The OnHTML("body") callback of one invocation (lines 40-63), run on a
\* page: it assigns the invocation's references variable and appends to its
\* quads variable.
OnHTMLBody(call, doc) ==
    LET title == PageTitle(doc)
        references == extractReferences(doc.sections)
        infoboxQuads == ParseRegions(SelectSeq(doc.regions, IsInfobox), TRUE, title, references)
        tableQuads == ParseRegions(SelectSeq(doc.regions, IsWikitable), FALSE, title, references)
    IN  [call EXCEPT !.references = references,
                     !.quads = @ \o infoboxQuads \o tableQuads]

----------------------------------------------------------------------------
(* The Extractor and ExtractFromURL *)

NoError == <<>>
ErrAlreadyVisited == <<"URL already visited">>
ErrUnavailable == <<"document unavailable">>

\* fmt.Errorf("failed to visit URL: %w", err)
WrapVisitError(err) == <<"failed to visit URL: ">> \o err

\* The local variables of one ExtractFromURL invocation, captured by its
\* callback (quads, references), and what it returned (ret, err)
NewCall(e, url) ==
    [ext |-> e, url |-> url, quads |-> <<>>, references |-> EmptyMap,
     ret |-> <<>>, err |-> NoError]

\* colly's Collector.Visit up to the response: a URL the collector has
\* visited is refused (AllowURLRevisit is off by default), otherwise the
\* page is fetched
VisitError(seen, url) ==
    IF url \in seen THEN ErrAlreadyVisited
    ELSE IF ~web[url].ok THEN ErrUnavailable
    ELSE NoError

\* The collector runs every registered OnHTML callback on the response, in
\* registration order; each writes the variables of its own invocation
RECURSIVE RunCallbacks(_, _, _)
RunCallbacks(cs, registered, doc) ==
    IF registered = <<>> THEN cs
    ELSE LET id == Head(registered)
         IN  RunCallbacks([cs EXCEPT ![id] = OnHTMLBody(cs[id], doc)], Tail(registered), doc)

\* Lines 65-70 with an error for a page without assertions (not what the
\* code does)
ReturnErrorOnEmpty(cs, id, err) ==
    IF err # NoError \/ cs[id].quads = <<>>
    THEN [cs EXCEPT ![id].ret = <<>>, ![id].err = WrapVisitError(err)]
    ELSE [cs EXCEPT ![id].ret = cs[id].quads, ![id].err = NoError]

\* Lines 65-70 with one accumulator shared by the invocations of an
\* Extractor (not what the code does)
ReturnShared(cs, id, err) ==
    IF err # NoError
    THEN [cs EXCEPT ![id].ret = <<>>, ![id].err = WrapVisitError(err)]
    ELSE [cs EXCEPT ![id].ret =
              ConcatAll([j \in DOMAIN cs |->
                  IF cs[j].ext = cs[id].ext /\ j <= id THEN cs[j].quads ELSE <<>>]),
                    ![id].err = NoError]

\* Lines 65-70
Return(cs, id, err) ==
    IF err # NoError
    THEN [cs EXCEPT ![id].ret = <<>>, ![id].err = WrapVisitError(err)]
    ELSE [cs EXCEPT ![id].ret = cs[id].quads, ![id].err = NoError]

MaxExtractors == 2
MaxCalls == 2

URLs == {"u1", "u2"}

\* NewExtractor: a fresh collector, no callbacks, nothing visited
NewExtractor ==
    /\ Len(handlers) < MaxExtractors
    /\ handlers' = Append(handlers, <<>>)
    /\ visited' = Append(visited, {})
    /\ UNCHANGED <<web, calls, arg, ret>>

\* ExtractFromURL on Extractor e: register the callback, visit, return.
\* Whether the collector remembers a URL whose fetch failed depends on the
\* colly release, so both outcomes are allowed.
ExtractFromURL(e, url) ==
    /\ Len(calls) < MaxCalls
    /\ LET id == Len(calls) + 1
           registered == Append(handlers[e], id)
           err == VisitError(visited[e], url)
           started == Append(calls, NewCall(e, url))
           ran == IF err = NoError THEN RunCallbacks(started, registered, web[url].doc)
                                   ELSE started
       IN  /\ handlers' = [handlers EXCEPT ![e] = registered]
           /\ \E remember \in BOOLEAN :
                  /\ err = NoError => remember
                  /\ err = ErrAlreadyVisited => ~remember
                  /\ visited' = [visited EXCEPT ![e] = IF remember THEN @ \cup {url} ELSE @]
           /\ calls' = Return(ran, id, err)
    /\ UNCHANGED <<web, arg, ret>>

----------------------------------------------------------------------------
(* The pages of the model *)

TextPaddedGo == <<" ", "Go", " ">>
TextWikiTitle == <<"Go", " ", "-", " ", "Wikipedia">>
TextIcon == <<"Icon">>

HeadingLists == {<<>>, <<SubjectExample>>, <<TextPaddedGo>>}
HeadTitleLists == {<<>>, <<TextWikiTitle>>}
BodyTitleLists == {<<>>, <<TextIcon>>}

ScenarioSections == <<Section("reflist>ol", <<Li(TRUE, Id1, <<LinkBack, LinkB>>)>>)>>

SectionLists ==
    { <<>>,
      ScenarioSections,
      <<Section("ol", <<Li(TRUE, Id1, <<LinkA, LinkB>>), Li(TRUE, Id2, <<LinkA>>)>>)>> }

ScenarioInfobox == Region(TRUE, FALSE, <<ScenarioRow>>)

HeaderOnlyInfobox ==
    Region(TRUE, FALSE,
           <<Row("infobox-header", <<Cell("th", <<TextNode(TextA)>>), Cell("td", <<TextNode(TextB)>>)>>),
             Row("", <<Cell("th", <<TextNode(TextBlank)>>), Cell("td", <<TextNode(TextB)>>)>>)>>)

Wikitable ==
    Region(FALSE, TRUE,
           <<Row("", <<Cell("td", <<TextNode(TextA)>>), Cell("td", <<TextNode(TextB)>>),
                       Cell("td", <<TextNode(TextC), Marker1>>)>>),
             Row("", <<Cell("th", <<TextNode(TextPaddedA)>>),
                       Cell("td", <<TextNode(TextPaddedB), Marker2>>)>>)>>)

InfoboxWikitable ==
    Region(TRUE, TRUE, <<Row("", <<Cell("th", <<TextNode(TextA)>>),
                                   Cell("td", <<TextNode(TextB), Marker2>>)>>)>>)

PlainTable == Region(FALSE, FALSE, <<ScenarioRow>>)

RegionLists ==
    { <<>>, <<ScenarioInfobox>>, <<HeaderOnlyInfobox>>, <<Wikitable>>, <<InfoboxWikitable>>,
      <<PlainTable>>, <<Wikitable, ScenarioInfobox>>, <<ScenarioInfobox, InfoboxWikitable>>,
      <<PlainTable, PlainTable>> }

Documents ==
    {Document(h, t, b, s, r) :
        h \in HeadingLists, t \in HeadTitleLists, b \in BodyTitleLists,
        s \in SectionLists, r \in RegionLists}

\* The page of the scenario: heading "Example Language", one info panel
\* row "Designed by | Robert X[1]", reference [1] -> https://example.com/bio
ScenarioDocument ==
    Document(<<SubjectExample>>, <<>>, <<>>, ScenarioSections, <<ScenarioInfobox>>)

Init ==
    /\ web \in {[u \in URLs |-> IF u = "u1" THEN p1 ELSE p2] :
                   p1 \in {Page(d) : d \in Documents} \cup {Unavailable},
                   p2 \in {Page(ScenarioDocument), Unavailable}}
    /\ handlers = <<>>
    /\ visited = <<>>
    /\ calls = <<>>
    /\ arg = [fn |-> "none"]
    /\ ret = NotDone

Next ==
    \/ NewExtractor
    \/ \E e \in DOMAIN handlers, url \in URLs : ExtractFromURL(e, url)

Spec == Init /\ [][Next]_vars

----------------------------------------------------------------------------
(* Properties of ExtractFromURL *)

\* No earlier invocation on the same Extractor asked for the same URL
FirstVisit(i) ==
    \A j \in 1..(i - 1) : ~(calls[j].ext = calls[i].ext /\ calls[j].url = calls[i].url)

\* Invocation i obtained the document of its URL
Fetched(i) == web[calls[i].url].ok /\ FirstVisit(i)

DocumentOf(i) == web[calls[i].url].doc

\* The document title: the text of the first title element of the document
DocumentTitle(doc) ==
    LET titles == doc.headTitles \o doc.bodyTitles
    IN  IF titles = <<>> THEN EmptyStr ELSE Head(titles)

\* The page subject: the primary heading if non-empty, else the document
\* title, else the empty string
PageSubject(doc) ==
    IF ConcatAll(doc.headings) # EmptyStr THEN ConcatAll(doc.headings)
    ELSE DocumentTitle(doc)

\* C4: extraction of the scenario page yields exactly one assertion,
\* (Example Language, Designed by, Robert X, https://example.com/bio).
C4_Scenario ==
    \A i \in DOMAIN calls :
        (Fetched(i) /\ DocumentOf(i) = ScenarioDocument) =>
            calls[i].ret = <<Quad(SubjectExample, TextDesignedBy, TextRobertX, LinkB)>>

\* C6: every assertion of one extraction carries the page subject: the
\* primary heading if non-empty, else the document title, else "".
C6_SubjectIsPageSubject ==
    \A i \in DOMAIN calls :
        Fetched(i) =>
            \A k \in DOMAIN calls[i].ret :
                calls[i].ret[k].subject = PageSubject(DocumentOf(i))

\* C7: the four fields of every returned assertion carry no leading or
\* trailing whitespace.
C7_FieldsTrimmed ==
    \A i \in DOMAIN calls :
        \A k \in DOMAIN calls[i].ret :
            /\ Trimmed(calls[i].ret[k].subject)
            /\ Trimmed(calls[i].ret[k].relationship)
            /\ Trimmed(calls[i].ret[k].value)
            /\ Trimmed(calls[i].ret[k].citation)

\* C9: an invocation that obtained its document returns no error; an
\* invocation returns an error only when the visit failed, and then it
\* returns no assertions and the wrapped error of the visit.
C9_NeverFails ==
    \A i \in DOMAIN calls :
        LET c == calls[i]
        IN  /\ Fetched(i) => c.err = NoError
            /\ c.err # NoError =>
                  /\ c.ret = <<>>
                  /\ c.err \in {WrapVisitError(ErrUnavailable), WrapVisitError(ErrAlreadyVisited)}
                  /\ c.err = WrapVisitError(ErrUnavailable) => ~web[c.url].ok
                  /\ c.err = WrapVisitError(ErrAlreadyVisited) => ~FirstVisit(i)

\* One invocation failed on an unavailable page, and one returned
\* assertions without error from a page with no heading, no title in the
\* body, no reference section and a citation marker that resolves to
\* nothing.
C9_Witness ==
    /\ \E i \in DOMAIN calls :
          ~web[calls[i].url].ok /\ calls[i].err = WrapVisitError(ErrUnavailable)
    /\ \E i \in DOMAIN calls :
          /\ Fetched(i)
          /\ DocumentOf(i).headings = <<>>
          /\ DocumentOf(i).bodyTitles = <<>>
          /\ DocumentOf(i).sections = <<>>
          /\ calls[i].err = NoError
          /\ \E k \in DOMAIN calls[i].ret : calls[i].ret[k].citation = Sentinel

HasStructuredRegion(doc) ==
    \E k \in DOMAIN doc.regions : doc.regions[k].infobox \/ doc.regions[k].wikitable

\* C10: a fetched document without info panel and without generic table
\* yields the empty sequence and no error.
C10_NoRegionsNoAssertions ==
    \A i \in DOMAIN calls :
        (Fetched(i) /\ ~HasStructuredRegion(DocumentOf(i))) =>
            calls[i].ret = <<>> /\ calls[i].err = NoError

\* A page with a heading, a title, references and a plain table, but no
\* info panel or generic table, was extracted by an Extractor that had
\* returned assertions for another page before.
C10_Witness ==
    \E i, j \in DOMAIN calls :
        /\ j < i
        /\ calls[j].ext = calls[i].ext
        /\ calls[j].ret # <<>>
        /\ Fetched(i)
        /\ ~HasStructuredRegion(DocumentOf(i))
        /\ DocumentOf(i).headings # <<>>
        /\ DocumentOf(i).headTitles # <<>>
        /\ DocumentOf(i).sections # <<>>
        /\ DocumentOf(i).regions # <<>>
        /\ calls[i].ret = <<>>
        /\ calls[i].err = NoError

\* C11: extracting the same (unchanged) page twice yields the same ordered
\* sequence of assertions both times, without error, also when both runs
\* go through the same Extractor.
C11_Idempotent ==
    \A i, j \in DOMAIN calls :
        (i < j /\ calls[i].url = calls[j].url /\ calls[i].err = NoError) =>
            calls[j].err = NoError /\ calls[j].ret = calls[i].ret

----------------------------------------------------------------------------
(* Concurrent invocations *)

\* An invocation in progress: the locals of NewCall and where it stands.
\* While pc = "visited", err holds the error Visit returned.
ConcCall(e, url) ==
    [ext |-> e, url |-> url, quads |-> <<>>, references |-> EmptyMap,
     ret |-> <<>>, err |-> NoError, pc |-> "registered"]

\* Lines 37-63: declare the locals and register the callback on the
\* Extractor's collector
RegisterCallback(e, url) ==
    /\ Len(calls) < MaxCalls
    /\ calls' = Append(calls, ConcCall(e, url))
    /\ handlers' = [handlers EXCEPT ![e] = Append(@, Len(calls) + 1)]
    /\ UNCHANGED <<web, visited, arg, ret>>

\* Line 65: Visit fetches the page and runs every callback registered on
\* the collector by then, those of other invocations included.  The
\* callbacks of one response run as one step; two visits appending to one
\* quads variable at the same time are a data race, whose outcomes include
\* those of the step orders taken here.
VisitStep(id) ==
    /\ calls[id].pc = "registered"
    /\ LET e == calls[id].ext
           url == calls[id].url
           err == VisitError(visited[e], url)
           ran == IF err = NoError THEN RunCallbacks(calls, handlers[e], web[url].doc)
                                   ELSE calls
       IN  /\ calls' = [ran EXCEPT ![id].pc = "visited", ![id].err = err]
           /\ \E remember \in BOOLEAN :
                  /\ err = NoError => remember
                  /\ err = ErrAlreadyVisited => ~remember
                  /\ visited' = [visited EXCEPT ![e] = IF remember THEN @ \cup {url} ELSE @]
    /\ UNCHANGED <<web, handlers, arg, ret>>

\* Lines 66-70: return the error, or the quads variable as it is now
ReturnStep(id) ==
    /\ calls[id].pc = "visited"
    /\ calls' = [Return(calls, id, calls[id].err) EXCEPT ![id].pc = "returned"]
    /\ UNCHANGED <<web, handlers, visited, arg, ret>>

ConcDocuments ==
    {Document(<<TextPaddedGo>>, <<>>, <<>>, s, r) : s \in SectionLists, r \in RegionLists}

InitConc ==
    /\ web \in {[u \in URLs |-> IF u = "u1" THEN p1 ELSE p2] :
                   p1 \in {Page(d) : d \in ConcDocuments},
                   p2 \in {Page(ScenarioDocument), Unavailable}}
    /\ handlers = <<>>
    /\ visited = <<>>
    /\ calls = <<>>
    /\ arg = [fn |-> "none"]
    /\ ret = NotDone

NextConc ==
    \/ NewExtractor
    \/ \E e \in DOMAIN handlers, url \in URLs : RegisterCallback(e, url)
    \/ \E id \in DOMAIN calls : VisitStep(id)
    \/ \E id \in DOMAIN calls : ReturnStep(id)

SpecConc == InitConc /\ [][NextConc]_vars

\* The assertions of a page
AssertionsOf(doc) == OnHTMLBody(NewCall(1, "u1"), doc).quads

\* C12: whatever the interleaving of invocations on different pages, each
\* invocation that returns without error returns exactly the assertions of
\* its own page.
C12_Isolation ==
    \A i \in DOMAIN calls :
        (/\ calls[i].pc = "returned"
         /\ calls[i].err = NoError
         /\ \A j \in DOMAIN calls : j # i => calls[j].url # calls[i].url) =>
            calls[i].ret = AssertionsOf(web[calls[i].url].doc)

----------------------------------------------------------------------------
(* Output order *)

\* The assertions of the rows of one region, row by row
RowAssertions(region, asInfobox, subject, references) ==
    ConcatAll([k \in DOMAIN region.rows |->
                  IF asInfobox THEN InfoboxRow(region.rows[k], subject, references)
                               ELSE TableRow(region.rows[k], subject, references)])

\* C13: the returned sequence is the assertions of all info panels in
\* document order, then those of all generic tables in document order,
\* each region's assertions in row order.
C13_OutputOrder ==
    \A i \in DOMAIN calls :
        Fetched(i) =>
            LET doc == DocumentOf(i)
                subject == PageTitle(doc)
                references == extractReferences(doc.sections)
                panels == ConcatAll([k \in DOMAIN doc.regions |->
                              IF doc.regions[k].infobox
                              THEN RowAssertions(doc.regions[k], TRUE, subject, references)
                              ELSE <<>>])
                tables == ConcatAll([k \in DOMAIN doc.regions |->
                              IF doc.regions[k].wikitable
                              THEN RowAssertions(doc.regions[k], FALSE, subject, references)
                              ELSE <<>>])
            IN  calls[i].ret = panels \o tables

\* A page whose generic table (two data rows) comes before its info panel
\* was extracted: the info panel's assertion is first, the table's two
\* follow in row order.
C13_Witness ==
    \E i \in DOMAIN calls :
        /\ Fetched(i)
        /\ DocumentOf(i).regions = <<Wikitable, ScenarioInfobox>>
        /\ Len(calls[i].ret) = 3
        /\ calls[i].ret[1].relationship = TextDesignedBy
        /\ calls[i].ret[2].value = TextB
        /\ calls[i].ret[3].value = <<"B", " ", " ", "[2]">>

----------------------------------------------------------------------------
(* Citation order *)

\* The positions in the cell of the markers that resolve, and the target
\* each resolves to
ResolvingAt(cell, references) ==
    {i \in DOMAIN cell.nodes : Resolves(cell.nodes[i], references)}

TargetAt(cell, references, i) == references[MarkerNote(cell.nodes[i])]

\* The position of the first marker of the cell that resolves to target t
FirstMarkerOf(cell, references, t) ==
    CHOOSE i \in ResolvingAt(cell, references) :
        /\ TargetAt(cell, references, i) = t
        /\ \A j \in ResolvingAt(cell, references) :
              TargetAt(cell, references, j) = t => i <= j

\* C14: when a marker resolves, the result is the distinct resolved targets
\* joined with "; ", in the order of their first markers in the cell.
C14_CitationOrder ==
    (CitesDone /\ ResolvingAt(arg.cell, arg.references) # {}) =>
        LET resolved == {TargetAt(arg.cell, arg.references, i) :
                            i \in ResolvingAt(arg.cell, arg.references)}
        IN  \E list \in [1..Cardinality(resolved) -> resolved] :
                /\ Range(list) = resolved
                /\ \A a, b \in DOMAIN list :
                      a < b => FirstMarkerOf(arg.cell, arg.references, list[a])
                                 < FirstMarkerOf(arg.cell, arg.references, list[b])
                /\ ret.val = Join(list, JoinSep)

\* A plain (non-superscript) marker of one target stands before a
\* superscript marker of another target: both are cited, the plain
\* marker's target first.
C14_Witness ==
    /\ CitesDone
    /\ \E i, j \in ResolvingAt(arg.cell, arg.references) :
          /\ i < j
          /\ ~arg.cell.nodes[i].sup
          /\ arg.cell.nodes[j].sup
          /\ TargetAt(arg.cell, arg.references, i) # TargetAt(arg.cell, arg.references, j)
          /\ ret.val = Join(<<TargetAt(arg.cell, arg.references, i),
                              TargetAt(arg.cell, arg.references, j)>>, JoinSep)

----------------------------------------------------------------------------
(* Info panel header rows *)

Flagged(row) == row.class = "infobox-header" \/ row.class = "infobox-subheader"

\* The rows of an info panel that are not flagged and whose header-cell
\* and data-cell text are both non-blank
PanelDataRows(rows) ==
    SelectSeq(rows, LAMBDA r : /\ ~Flagged(r)
                               /\ ~Blank(LabelText("parseInfobox", r))
                               /\ ~Blank(ValueText("parseInfobox", r)))

\* C15: parseInfobox emits nothing for a row flagged as section header or
\* subheader, and exactly one assertion for every other row with non-empty
\* label and value, in row order.
C15_HeaderRowsSkipped ==
    (arg.fn = "parseInfobox" /\ ret.done) =>
        LET data == PanelDataRows(arg.rows)
        IN  /\ Len(ret.val) = Len(data)
            /\ \A i \in DOMAIN ret.val :
                  /\ IsTrimOf(ret.val[i].relationship, LabelText("parseInfobox", data[i]))
                  /\ IsTrimOf(ret.val[i].value, ValueText("parseInfobox", data[i]))

\* A subheader row with non-empty cells was parsed next to a data row, and
\* only the data row was emitted.
C15_Witness ==
    /\ arg.fn = "parseInfobox" /\ ret.done
    /\ \E i, j \in DOMAIN arg.rows :
          /\ arg.rows[i].class = "infobox-subheader"
          /\ ~Blank(LabelText("parseInfobox", arg.rows[i]))
          /\ ~Blank(ValueText("parseInfobox", arg.rows[i]))
          /\ arg.rows[j] = ScenarioRow
    /\ Len(ret.val) = 1
    /\ ret.val[1].relationship = TextDesignedBy

----------------------------------------------------------------------------
(* SQLiteStorage.Store *)

\* A row of the quads table
QuadRow(quad, sourceURL, extractedAt) ==
    [subject |-> quad.subject, relationship |-> quad.relationship,
     value |-> quad.value, citation |-> quad.citation,
     source_url |-> sourceURL, extracted_at |-> extractedAt]

\* Where the database fails during one Store: at "begin", "prepare",
\* "commit", at the k-th "insert", or nowhere ("none")
Fault(at, k) == [at |-> at, k |-> k]

\* A transaction: the committed rows it started from and the rows it has
\* inserted, not yet committed
Begin(db) == [base |-> db, pending |-> <<>>]

\* stmt.Exec inside the transaction
Exec(tx, row) == [tx EXCEPT !.pending = Append(@, row)]

\* The inserted rows kept although the transaction ended without commit,
\* as with statements run outside a transaction (not what the code does)
RollbackKeepsInserted(tx) == tx.base \o tx.pending

\* The deferred tx.Rollback() of a transaction that was not committed
Rollback(tx) == tx.base

\* tx.Commit()
Commit(tx) == tx.base \o tx.pending

ErrBegin == <<"failed to begin transaction: ", "database error">>
ErrPrepare == <<"failed to prepare statement: ", "database error">>
ErrInsert == <<"failed to insert quad: ", "database error">>
ErrCommit == <<"database error">>

StoreResult(rows, err) == [rows |-> rows, err |-> err]

\* The loop of lines 128-140 from the k-th quad on, then the commit
RECURSIVE InsertAll(_, _, _, _, _, _)
InsertAll(tx, quads, k, sourceURL, extractedAt, fault) ==
    IF k > Len(quads)
    THEN IF fault.at = "commit"
         THEN StoreResult(Rollback(tx), ErrCommit)
         ELSE StoreResult(Commit(tx), NoError)
    ELSE IF fault.at = "insert" /\ fault.k = k
         THEN StoreResult(Rollback(tx), ErrInsert)
         ELSE InsertAll(Exec(tx, QuadRow(quads[k], sourceURL, extractedAt)),
                        quads, k + 1, sourceURL, extractedAt, fault)

\* Store: the rows of the table afterwards, and the error returned
Store(db, quads, sourceURL, extractedAt, fault) ==
    IF fault.at = "begin" THEN StoreResult(db, ErrBegin)
    ELSE LET tx == Begin(db)
         IN  IF fault.at = "prepare" THEN StoreResult(Rollback(tx), ErrPrepare)
             ELSE InsertAll(tx, quads, 1, sourceURL, extractedAt, fault)

MaxBatch == 2

StoreQuads ==
    { Quad(SubjectExample, TextDesignedBy, TextRobertX, LinkB),
      Quad(SubjectExample, TextA, TextB, Sentinel) }

StoredBefore ==
    { <<>>,
      <<QuadRow(Quad(TextPaddedGo, TextA, TextB, Sentinel), "u1", "t0")>> }

Faults ==
    {Fault(at, 0) : at \in {"none", "begin", "prepare", "commit"}}
        \cup {Fault("insert", k) : k \in 1..MaxBatch}

InitStore ==
    /\ web = <<>> /\ handlers = <<>> /\ visited = <<>> /\ calls = <<>>
    /\ arg \in {[fn |-> "Store", db |-> d, quads |-> q, sourceURL |-> u,
                 extractedAt |-> "t1", fault |-> f] :
                    d \in StoredBefore, q \in SeqsUpTo(StoreQuads, MaxBatch),
                    u \in URLs, f \in Faults}
    /\ ret = NotDone

ApplyStore ==
    /\ arg.fn = "Store"
    /\ ~ret.done
    /\ ret' = Done(Store(arg.db, arg.quads, arg.sourceURL, arg.extractedAt, arg.fault))
    /\ UNCHANGED <<web, handlers, visited, calls, arg>>

NextStore == ApplyStore

SpecStore == InitStore /\ [][NextStore]_vars

\* C16: after Store, either no error was returned and the table is the
\* old rows followed by one row per assertion of the batch, with the given
\* source URL and extraction time, or an error was returned and the table
\* is unchanged.
C16_StoreAllOrNothing ==
    (arg.fn = "Store" /\ ret.done) =>
        \/ /\ ret.val.err = NoError
           /\ Len(ret.val.rows) = Len(arg.db) + Len(arg.quads)
           /\ SubSeq(ret.val.rows, 1, Len(arg.db)) = arg.db
           /\ \A k \in DOMAIN arg.quads :
                 LET row == ret.val.rows[Len(arg.db) + k]
                 IN  /\ row.subject = arg.quads[k].subject
                     /\ row.relationship = arg.quads[k].relationship
                     /\ row.value = arg.quads[k].value
                     /\ row.citation = arg.quads[k].citation
                     /\ row.source_url = arg.sourceURL
                     /\ row.extracted_at = arg.extractedAt
        \/ /\ ret.val.err # NoError
           /\ ret.val.rows = arg.db

\* The second insert of a batch of two failed on a table that held a row:
\* an error was returned and the first assertion of the batch is not in
\* the table.
C16_Witness ==
    /\ arg.fn = "Store" /\ ret.done
    /\ Len(arg.quads) = 2
    /\ arg.fault = Fault("insert", 2)
    /\ arg.db # <<>>
    /\ ret.val.err = ErrInsert
    /\ ret.val.rows = arg.db

====
